---- MODULE Spec2Model ----
(***************************************************************************)
(* Model of the CORD-19 chunked pipeline:                                  *)
(*   data_cleaning.py     clean_data_chunked and its __main__ entry point  *)
(*   analysis_and_viz.py  analyze_and_visualize_chunked                    *)
(*   app.py               load_sampled_data and the filter/view page       *)
(*                                                                         *)
(* A CSV cell is modelled by its text.  The text of every field but the    *)
(* title is a TLA+ string; a title is a tuple of one-character strings so  *)
(* that whitespace splitting and the tokenizer are computed, not assumed.  *)
(* pandas is modelled by what the calls in the source do with these cells: *)
(* read_csv turns NA texts into missing values and infers a dtype per      *)
(* chunk, to_csv writes a float column as "2020.0" and an integer column   *)
(* as "2020", and so on.  Each such rule is stated where it is used.       *)
(***************************************************************************)
EXTENDS Integers, Sequences, FiniteSets, TLC

VARIABLES
    \* ---- data_cleaning.py ----
    input,                  \* the input file: [kind, rows]
    chunksize,              \* parameter chunksize of the current call
    output,                 \* the output file: Absent or a sequence of lines
    start_output,           \* the output file as it was when the current call began
    cpc,                    \* position of the cleaning program
    via_main,               \* TRUE when the current call was made by __main__
    i,                      \* index of the next chunk of the loop at line 24
    first_chunk,            \* line 16
    total_rows_processed,   \* line 17
    total_rows_kept,        \* line 18
    result,                 \* value returned by clean_data_chunked
    report,                 \* what __main__ printed at lines 127-130
    runs,                   \* number of calls of clean_data_chunked so far
    \* ---- analysis_and_viz.py ----
    cleaned_data_file,      \* the cleaned artifact read by the analysis: [kind, rows]
    achunksize,             \* parameter chunksize of analyze_and_visualize_chunked
    apc,                    \* position of the analysis program
    ai,                     \* index of the next chunk of the loop at line 28
    year_counts_agg,        \* line 18
    source_counts_agg,      \* line 19
    all_words,              \* line 20
    title_word_counts_list, \* line 21
    year_counts_final,      \* line 62
    top_sources_final,      \* line 63
    top_words_final,        \* line 64
    visualizations,         \* the image files written under visualizations/
    \* ---- app.py ----
    data_file,              \* the file at DATA_FILE: [kind, runs, fail]
    sample_frac,            \* SAMPLE_FRAC, in percent
    lpc,                    \* position of load_sampled_data
    chunk_count,            \* line 41
    total_rows_read,        \* line 42
    chunks,                 \* line 40: the sampled chunks
    df,                     \* line 125: the frame the page works on
    load_raised,            \* TRUE when load_sampled_data raised to the page
    ppc,                    \* position of the page script
    filtered_df,            \* lines 140-163
    year_range,             \* lines 139, 143
    selected_sources,       \* line 161
    year_counts_filtered    \* line 228

cleanVars == <<input, chunksize, output, start_output, cpc, via_main, i,
               first_chunk, total_rows_processed, total_rows_kept, result,
               report, runs>>

analysisVars == <<cleaned_data_file, achunksize, apc, ai, year_counts_agg,
                  source_counts_agg, all_words, title_word_counts_list,
                  year_counts_final, top_sources_final, top_words_final,
                  visualizations>>

appVars == <<data_file, sample_frac, lpc, chunk_count, total_rows_read, chunks,
             df, load_raised, ppc, filtered_df, year_range, selected_sources,
             year_counts_filtered>>

vars == <<cleanVars, analysisVars, appVars>>

----------------------------------------------------------------------------
(* Bounds of the model *)

MaxRows == 3        \* longest input file of a single cleaning run, in records
MaxRerunRows == 2   \* longest input file when the cleaning run is repeated
MaxRuns == 2        \* calls of clean_data_chunked on one destination
MaxARows == 3       \* longest freely chosen cleaned artifact of an analysis run
MaxPRows == 2       \* longest input file of a cleaning run followed by an analysis
MaxSRows == 3       \* longest freely chosen cleaned artifact of the page

----------------------------------------------------------------------------
(* Generic helpers *)

Min(a, b) == IF a < b THEN a ELSE b

Range(s) == {s[k] : k \in 1..Len(s)}

SeqsUpTo(S, n) == UNION {[1..k -> S] : k \in 0..n}

RECURSIVE SelectRows(_, _)
\* the rows of s, in order, whose index is in keep
SelectRows(s, keep) ==
    IF s = <<>> THEN <<>>
    ELSE LET front == SelectRows(SubSeq(s, 1, Len(s) - 1), keep)
         IN  IF Len(s) \in keep THEN Append(front, s[Len(s)]) ELSE front

----------------------------------------------------------------------------
(* CSV cells and in-memory values *)

NaN == "<NaN>"              \* a missing string value in a DataFrame
NaNTitle == <<"<NaN>">>     \* a missing title in a DataFrame
NaT == "<NaT>"              \* a missing datetime in a DataFrame
Missing == {}               \* a missing number; a present number n is {n}
Some(n) == {n}
ValueOf(o) == CHOOSE n \in o : TRUE

\* Texts that read_csv turns into a missing value (a part of pandas' default
\* na_values list; the empty cell is one of them).
NaTexts == {"", "NA"}
NaTitleTexts == {<<>>, <<"N", "A">>}

TitleCatsAndDogs == <<"C","a","t","s"," ","A","n","d"," ","D","o","g","s">>
TitleBlank == <<" ">>       \* present, not empty, no word in it

Whitespace == {" "}

\* Dates the model's input uses, with the year pd.to_datetime(...).dt.year gives.
Dates == {"2019-12-31", "2020-03-01"}
YearOfDate(d) == IF d = "2019-12-31" THEN 2019 ELSE 2020

\* to_csv of an integer cell, and of a float cell holding a whole number
IntText(n) ==
    CASE n = 0 -> "0" [] n = 1 -> "1" [] n = 2 -> "2" [] n = 3 -> "3"
      [] n = 2019 -> "2019" [] n = 2020 -> "2020" [] n = 2021 -> "2021"
FloatText(n) ==
    CASE n = 2019 -> "2019.0" [] n = 2020 -> "2020.0" [] n = 2021 -> "2021.0"

\* read_csv of one cell: the NA texts become missing, any other text is kept
ReadCell(text) == IF text \in NaTexts THEN NaN ELSE text
ReadTitleCell(text) == IF text \in NaTitleTexts THEN NaNTitle ELSE text

\* to_csv of one string cell: a missing value is written as the empty text
CellText(v) == IF v = NaN THEN "" ELSE v
TitleText(v) == IF v = NaNTitle THEN <<>> ELSE v

----------------------------------------------------------------------------
(* data_cleaning.py: the input and output files *)

Absent == <<[kind |-> "absent"]>>    \* os.path.exists(output_file) is False

\* Fields of an input record.  journal is one of cols_to_drop_if_present,
\* source_x is a passthrough field.
InTitles == {<<>>, <<"N", "A">>, TitleCatsAndDogs, TitleBlank}
InPublishTimes == {"", "n.d.", "2019-12-31", "2020-03-01"}
InRecords ==
    [title : InTitles, abstract : {""}, publish_time : InPublishTimes,
     journal : {"J"}, source_x : {"PMC"}]

\* a record without the field c: the file has no column c
Without(r, c) == [k \in (DOMAIN r) \ {c} |-> r[k]]

\* a line with one field more than the header has: read_csv raises
\* ParserError when it reaches it
MalformedRecord ==
    [title |-> TitleCatsAndDogs, abstract |-> "", publish_time |-> "2020-03-01",
     journal |-> "J", source_x |-> "PMC", overflow |-> "x"]

\* kind "absent": no file at input_file; "empty": a file of zero bytes;
\* "csv": a header line and the records rows.  The columns of a file are the
\* fields of its records; the files without the abstract or the publish_time
\* column have at least one record, and differ in their titles only.
InputFiles(maxRows) ==
    {[kind |-> "absent", rows |-> <<>>], [kind |-> "empty", rows |-> <<>>]}
    \cup {[kind |-> "csv", rows |-> r] :
             r \in SeqsUpTo(InRecords \cup {MalformedRecord}, maxRows)}
    \cup {[kind |-> "csv", rows |-> [j \in 1..Len(r) |-> Without(r[j], c)]] :
             r \in SeqsUpTo({x \in InRecords : x.publish_time = "2020-03-01"},
                            maxRows) \ {<<>>},
             c \in {"abstract", "publish_time"}}

HeaderCells(cols) ==
    [c \in cols |-> IF c = "title" THEN <<"t","i","t","l","e">> ELSE c]
HeaderLine(cols) == [kind |-> "header", cells |-> HeaderCells(cols)]
RowLine(cells) == [kind |-> "row", cells |-> cells]

DataRows(file) ==
    IF file = Absent THEN <<>>
    ELSE SelectRows(file, {k \in 1..Len(file) : file[k].kind = "row"})
HeaderCount(file) ==
    IF file = Absent THEN 0
    ELSE Cardinality({k \in 1..Len(file) : file[k].kind = "header"})

----------------------------------------------------------------------------
(* data_cleaning.py: clean_data_chunked, one chunk *)

\* pd.read_csv(input_file, chunksize=chunksize): chunk number k (from 0) of the
\* records, parsed.  A file with a header and no record gives one empty chunk.
NumChunks(rows, W) ==
    IF Len(rows) = 0 THEN 1 ELSE (Len(rows) + W - 1) \div W
\* mutant of RawChunk: a chunk begins with the last record of the one before
RawChunkOverlapping(rows, W, k) ==
    SubSeq(rows, IF k = 0 THEN 1 ELSE k * W, Min((k + 1) * W, Len(rows)))
RawChunk(rows, W, k) == SubSeq(rows, k * W + 1, Min((k + 1) * W, Len(rows)))
ReadRecord(r) ==
    [c \in DOMAIN r |->
        IF c = "title" THEN ReadTitleCell(r.title) ELSE ReadCell(r[c])]
\* line 24: the read of the next chunk raises ParserError at a malformed line
ParserErrorRaises(raw) == \E j \in 1..Len(raw) : "overflow" \in DOMAIN raw[j]
ReadChunk(rows, W, k) ==
    LET raw == RawChunk(rows, W, k) IN [j \in 1..Len(raw) |-> ReadRecord(raw[j])]

\* mutant of DropNaTitle: rows with a blank title are dropped as well
DropNaOrBlankTitle(frame) ==
    SelectRows(frame, {j \in 1..Len(frame) :
                          frame[j].title \notin {NaNTitle, TitleBlank}})

\* line 33: chunk_df.dropna(subset=['title'], inplace=True)
DropNaTitle(frame) ==
    SelectRows(frame, {j \in 1..Len(frame) : frame[j].title # NaNTitle})

\* line 38: .fillna('')
FillAbstract(a) == IF a = NaN THEN "" ELSE a

\* mutant of ToDatetime: a text that is no date becomes a default date
ToDatetimeDefaulting(p) == IF p \in Dates THEN p ELSE "2020-03-01"

\* line 43: pd.to_datetime(..., errors='coerce')
ToDatetime(p) == IF p \in Dates THEN p ELSE NaT

\* line 44: .dt.year of one value
YearOf(dt) == IF dt = NaT THEN Missing ELSE Some(YearOfDate(dt))

\* mutant of WordCount: the words are counted as the blanks plus one
WordCountBySpaces(t) ==
    Cardinality({j \in 1..Len(t) : t[j] \in Whitespace}) + 1

RECURSIVE WordCount(_)
\* line 48: len(title.split()): the number of maximal runs of non-whitespace
WordCount(t) ==
    IF t = <<>> THEN 0
    ELSE LET n == Len(t)
             startsWord == t[n] \notin Whitespace
                         /\ (n = 1 \/ t[n - 1] \in Whitespace)
         IN  WordCount(SubSeq(t, 1, n - 1)) + (IF startsWord THEN 1 ELSE 0)

\* line 48: .str on the title column.  A chunk whose titles are all missing is
\* read as a float64 column, it stays float64 after dropna and fillna(''), and
\* the .str accessor raises AttributeError on it; a chunk with at least one
\* title, or the empty chunk of a header-only file, has an object column.
StrAccessorRaises(frame) ==
    Len(frame) > 0 /\ \A j \in 1..Len(frame) : frame[j].title = NaNTitle

\* lines 33, 38, 43: chunk_df['title'], chunk_df['abstract'] and
\* chunk_df['publish_time'] raise KeyError when the chunk has no such column
KeyErrorRaises(frame) ==
    Len(frame) > 0
    /\ ~({"title", "abstract", "publish_time"} \subseteq DOMAIN frame[1])

\* lines 63-66
ColsToDropIfPresent == {"journal", "pmcid"}

\* lines 33-66 for one row that survived the drop
CleanRow(r) ==
    LET dt == ToDatetime(r.publish_time)
        full == [c \in (DOMAIN r) \cup {"year", "title_word_count"} |->
                    CASE c = "abstract" -> FillAbstract(r.abstract)
                      [] c = "publish_time" -> dt
                      [] c = "year" -> YearOf(dt)
                      [] c = "title_word_count" -> WordCount(r.title)
                      [] OTHER -> r[c]]
    IN  [c \in (DOMAIN full) \ ColsToDropIfPresent |-> full[c]]

CleanFrame(frame) ==
    LET kept == DropNaTitle(frame) IN [j \in 1..Len(kept) |-> CleanRow(kept[j])]

\* line 44: the dtype of the year column of a cleaned chunk.  .dt.year is an
\* integer column when no datetime of the chunk is missing and a float64
\* column (2020.0) as soon as one is.
YearIsFloat(cleaned) ==
    \E j \in 1..Len(cleaned) : cleaned[j].publish_time = NaT

\* line 76: to_csv of one cell of the year column
YearText(y, asFloat) ==
    IF y = Missing THEN ""
    ELSE IF asFloat THEN FloatText(ValueOf(y)) ELSE IntText(ValueOf(y))

\* line 76: to_csv of one row
CsvRow(r, yearAsFloat) ==
    [c \in DOMAIN r |->
        CASE c = "title" -> TitleText(r.title)
          [] c = "publish_time" -> (IF r.publish_time = NaT THEN "" ELSE r.publish_time)
          [] c = "year" -> YearText(r.year, yearAsFloat)
          [] c = "title_word_count" -> IntText(r.title_word_count)
          [] OTHER -> CellText(r[c])]

\* line 76: chunk_df.to_csv(output_file, mode='a', index=False, header=write_header)
AppendCsv(file, cleaned, write_header) ==
    LET old == IF file = Absent THEN <<>> ELSE file
        head == IF write_header
                THEN <<HeaderLine(DOMAIN cleaned[1])>> ELSE <<>>
        body == [j \in 1..Len(cleaned) |->
                    RowLine(CsvRow(cleaned[j], YearIsFloat(cleaned)))]
    IN  old \o head \o body

----------------------------------------------------------------------------
(* data_cleaning.py: clean_data_chunked as a run over the chunks *)

RNone == [kind |-> "None", n |-> 0]          \* return None
RInt(n) == [kind |-> "int", n |-> n]         \* return total_rows_kept
RUnset == [kind |-> "unset", n |-> 0]        \* the call has not returned

\* mutant of RunStart: the output file is created before the input is read
RunStartCreating(out) ==
    [pc |-> "loop", i |-> 0, first_chunk |-> TRUE, total_rows_processed |-> 0,
     total_rows_kept |-> 0, output |-> IF out = Absent THEN <<>> ELSE out,
     result |-> RUnset]

\* lines 16-22 of a call whose input is a CSV file: the state at the loop head
RunStart(out) ==
    [pc |-> "loop", i |-> 0, first_chunk |-> TRUE, total_rows_processed |-> 0,
     total_rows_kept |-> 0, output |-> out, result |-> RUnset]

\* mutant of RunAbort: the failed chunk is skipped and the loop goes on
RunSkipChunk(st) == [st EXCEPT !.i = @ + 1]

\* lines 100-114: the handlers print and return None; the output file is left
\* as it is.  pc "raised" is a return from a handler, "returned" one from
\* lines 94-98.
RunAbort(st) == [st EXCEPT !.pc = "raised", !.result = RNone]

\* mutant of WriteChunk: a chunk with no row creates the output file
WriteChunkTouching(st, cleaned) ==
    IF Len(cleaned) > 0
    THEN [st EXCEPT !.output = AppendCsv(st.output, cleaned, st.first_chunk),
                    !.first_chunk = FALSE]
    ELSE [st EXCEPT !.output = IF @ = Absent THEN <<>> ELSE @]

\* lines 73-80: the write of one cleaned chunk
WriteChunk(st, cleaned) ==
    IF Len(cleaned) > 0
    THEN [st EXCEPT !.output = AppendCsv(st.output, cleaned, st.first_chunk),
                    !.first_chunk = FALSE]
    ELSE st

\* lines 24-80: one iteration of the loop, or the end of the loop
RunChunk(st, rows, W) ==
    IF st.i >= NumChunks(rows, W)
    THEN [st EXCEPT !.pc = "finished"]
    ELSE LET frame == ReadChunk(rows, W, st.i)
             cleaned == CleanFrame(frame)
             counted == [st EXCEPT !.total_rows_processed = @ + Len(frame)]
         IN  IF ParserErrorRaises(RawChunk(rows, W, st.i))
             THEN RunAbort(st)
             ELSE IF KeyErrorRaises(frame) \/ StrAccessorRaises(frame)
             THEN RunAbort(counted)
             ELSE WriteChunk([counted EXCEPT !.i = @ + 1,
                                             !.total_rows_kept = @ + Len(cleaned)],
                             cleaned)

\* mutant of RunFinish: the number returned is the number of data rows of the
\* output file
RunFinishFileRows(st) ==
    [st EXCEPT !.pc = "returned",
               !.result = IF st.output # Absent
                          THEN RInt(Len(DataRows(st.output))) ELSE RNone]
\* lines 82-98
RunFinish(st) ==
    [st EXCEPT !.pc = "returned",
               !.result = IF st.output # Absent THEN RInt(st.total_rows_kept)
                          ELSE RNone]

RECURSIVE RunToEnd(_, _, _)
\* the call from the loop head to its return
RunToEnd(st, rows, W) ==
    CASE st.pc = "loop" -> RunToEnd(RunChunk(st, rows, W), rows, W)
      [] st.pc = "finished" -> RunFinish(st)
      [] OTHER -> st

\* clean_data_chunked(input_file, output_file, chunksize) as a whole, the output
\* file being out when it is called
CleanRun(inp, out, W) ==
    IF inp.kind = "csv" THEN RunToEnd(RunStart(out), inp.rows, W)
    ELSE RunAbort(RunStart(out))

----------------------------------------------------------------------------
(* data_cleaning.py: the state machine *)

RunState ==
    [pc |-> cpc, i |-> i, first_chunk |-> first_chunk,
     total_rows_processed |-> total_rows_processed,
     total_rows_kept |-> total_rows_kept, output |-> output, result |-> result]

SetRunState(st) ==
    /\ cpc' = st.pc
    /\ i' = st.i
    /\ first_chunk' = st.first_chunk
    /\ total_rows_processed' = st.total_rows_processed
    /\ total_rows_kept' = st.total_rows_kept
    /\ output' = st.output
    /\ result' = st.result

Windows(maxRows) == 1..maxRows

CleanIdle ==
    /\ output = Absent
    /\ start_output = Absent
    /\ cpc = "idle"
    /\ via_main = FALSE
    /\ i = 0
    /\ first_chunk = TRUE
    /\ total_rows_processed = 0
    /\ total_rows_kept = 0
    /\ result = RUnset
    /\ report = "none"
    /\ runs = 0

\* lines 14-22, 100-105: the call opens the input; a missing or empty input
\* file makes read_csv raise, and the handlers return None
Open(out) ==
    /\ start_output' = out
    /\ runs' = runs + 1
    /\ report' = "none"
    /\ IF input.kind = "csv" THEN SetRunState(RunStart(out))
       ELSE SetRunState(RunAbort(RunStart(out)))

\* lines 116-126: the script removes an existing output file, then calls
MainStart ==
    /\ cpc = "idle"
    /\ via_main' = TRUE
    /\ Open(Absent)
    /\ UNCHANGED <<input, chunksize>>
    /\ UNCHANGED <<analysisVars, appVars>>

\* a caller other than the script calls clean_data_chunked on the same paths
CallStart ==
    /\ cpc = "idle"
    /\ via_main' = FALSE
    /\ Open(output)
    /\ UNCHANGED <<input, chunksize>>
    /\ UNCHANGED <<analysisVars, appVars>>

\* lines 24-80
ProcessChunk ==
    /\ cpc = "loop"
    /\ SetRunState(RunChunk(RunState, input.rows, chunksize))
    /\ UNCHANGED <<input, chunksize, start_output, via_main, report, runs>>
    /\ UNCHANGED <<analysisVars, appVars>>

\* lines 82-98
Finish ==
    /\ cpc = "finished"
    /\ SetRunState(RunFinish(RunState))
    /\ UNCHANGED <<input, chunksize, start_output, via_main, report, runs>>
    /\ UNCHANGED <<analysisVars, appVars>>

\* lines 127-130: `if result:` is false for None and for 0
ResultIsTruthy(r) == r.kind = "int" /\ r.n # 0

Returned == cpc \in {"returned", "raised"}

MainReport ==
    /\ Returned
    /\ via_main
    /\ report = "none"
    /\ report' = IF ResultIsTruthy(result) THEN "success" ELSE "failed"
    /\ UNCHANGED <<input, chunksize, output, start_output, cpc, via_main, i,
                   first_chunk, total_rows_processed, total_rows_kept, result,
                   runs>>
    /\ UNCHANGED <<analysisVars, appVars>>

\* the next call on the same input and destination
Again ==
    /\ Returned
    /\ via_main => report # "none"
    /\ runs < MaxRuns
    /\ cpc' = "idle"
    /\ UNCHANGED <<input, chunksize, output, start_output, via_main, i,
                   first_chunk, total_rows_processed, total_rows_kept, result,
                   report, runs>>
    /\ UNCHANGED <<analysisVars, appVars>>

\* between two calls the input file is replaced by a file that has the
\* header line and no record
HeaderOnly == [kind |-> "csv", rows |-> <<>>]
ReplaceInput ==
    /\ cpc = "idle"
    /\ runs >= 1
    /\ input # HeaderOnly
    /\ input' = HeaderOnly
    /\ UNCHANGED <<chunksize, output, start_output, cpc, via_main, i,
                   first_chunk, total_rows_processed, total_rows_kept, result,
                   report, runs>>
    /\ UNCHANGED <<analysisVars, appVars>>

----------------------------------------------------------------------------
(* analysis_and_viz.py: Series, value_counts and Counter *)

\* A Series of counts and a Counter are sequences of entries in index order
\* (for a Counter, the order of insertion).
Entry(k, n) == [key |-> k, n |-> n]
Keys(series) == [j \in 1..Len(series) |-> series[j].key]
AsMap(series) == {<<series[j].key, series[j].n>> : j \in 1..Len(series)}
Total(series) ==
    LET RECURSIVE Sum(_)
        Sum(j) == IF j = 0 THEN 0 ELSE Sum(j - 1) + series[j].n
    IN  Sum(Len(series))

RECURSIVE Distinct(_)
\* the values of vals, each once, in the order of first appearance
Distinct(vals) ==
    IF vals = <<>> THEN <<>>
    ELSE LET front == Distinct(SubSeq(vals, 1, Len(vals) - 1))
             last == vals[Len(vals)]
         IN  IF last \in Range(front) THEN front ELSE Append(front, last)

Occurrences(vals, v) == Cardinality({j \in 1..Len(vals) : vals[j] = v})

RECURSIVE InsertByCount(_, _)
InsertByCount(sorted, e) ==
    IF sorted = <<>> THEN <<e>>
    ELSE IF Head(sorted).n >= e.n
         THEN <<Head(sorted)>> \o InsertByCount(Tail(sorted), e)
         ELSE <<e>> \o sorted

RECURSIVE SortByCount(_)
\* sort_values(ascending=False); equal counts keep their order
SortByCount(series) ==
    IF series = <<>> THEN <<>>
    ELSE InsertByCount(SortByCount(SubSeq(series, 1, Len(series) - 1)),
                       series[Len(series)])

\* lines 36, 42: Series.value_counts() of the non-missing values vals of a
\* column: one entry per value, by descending count
ValueCounts(vals) ==
    LET d == Distinct(vals)
    IN  SortByCount([j \in 1..Len(d) |-> Entry(d[j], Occurrences(vals, d[j]))])

RECURSIVE InsertByKey(_, _, _)
InsertByKey(sorted, e, rank) ==
    IF sorted = <<>> THEN <<e>>
    ELSE IF rank[Head(sorted).key] <= rank[e.key]
         THEN <<Head(sorted)>> \o InsertByKey(Tail(sorted), e, rank)
         ELSE <<e>> \o sorted

RECURSIVE SortByKey(_, _)
\* sort_index(), and the ordering of an outer join of two different indexes
SortByKey(series, rank) ==
    IF series = <<>> THEN <<>>
    ELSE InsertByKey(SortByKey(SubSeq(series, 1, Len(series) - 1), rank),
                     series[Len(series)], rank)

CountIn(series, k) ==
    IF \E j \in 1..Len(series) : series[j].key = k
    THEN series[CHOOSE j \in 1..Len(series) : series[j].key = k].n
    ELSE 0

\* mutant of SeriesAdd: a key of both series keeps the count of the chunk
SeriesAddNoSum(agg, counts, rank) ==
    LET ks == Distinct(Keys(agg) \o Keys(counts))
    IN  SortByKey([j \in 1..Len(ks) |->
                      Entry(ks[j], IF CountIn(counts, ks[j]) > 0
                                   THEN CountIn(counts, ks[j])
                                   ELSE CountIn(agg, ks[j]))],
                  rank)

\* lines 38, 43: agg.add(chunk_counts, fill_value=0).astype('int64').  Two
\* equal indexes are added in place; otherwise the indexes are outer-joined:
\* the join with an empty index is the other index as it is, the join of two
\* different non-empty indexes is their sorted union.
SeriesAdd(agg, counts, rank) ==
    IF Keys(agg) = Keys(counts)
    THEN [j \in 1..Len(agg) |-> Entry(agg[j].key, agg[j].n + counts[j].n)]
    ELSE IF agg = <<>> THEN counts
    ELSE IF counts = <<>> THEN agg
    ELSE LET ks == Distinct(Keys(agg) \o Keys(counts))
         IN  SortByKey([j \in 1..Len(ks) |->
                           Entry(ks[j], CountIn(agg, ks[j]) + CountIn(counts, ks[j]))],
                       rank)

\* Series.head(n)
SeriesHead(series, n) == SubSeq(series, 1, Min(n, Len(series)))

RECURSIVE CounterUpdate(_, _)
\* line 52: all_words.update(words): a new word is inserted at the end
CounterUpdate(counter, words) ==
    IF words = <<>> THEN counter
    ELSE LET w == Head(words)
             next == IF \E j \in 1..Len(counter) : counter[j].key = w
                     THEN [j \in 1..Len(counter) |->
                              IF counter[j].key = w
                              THEN Entry(w, counter[j].n + 1) ELSE counter[j]]
                     ELSE Append(counter, Entry(w, 1))
         IN  CounterUpdate(next, Tail(words))

----------------------------------------------------------------------------
(* analysis_and_viz.py: the tokenizer of line 50 *)

UpperLetters ==
    <<"A","B","C","D","E","F","G","H","I","J","K","L","M",
      "N","O","P","Q","R","S","T","U","V","W","X","Y","Z">>
LowerLetters ==
    <<"a","b","c","d","e","f","g","h","i","j","k","l","m",
      "n","o","p","q","r","s","t","u","v","w","x","y","z">>
Digits == {"0","1","2","3","4","5","6","7","8","9"}

\* str.lower() of one character
LowerChar(c) ==
    IF \E k \in 1..26 : UpperLetters[k] = c
    THEN LowerLetters[CHOOSE k \in 1..26 : UpperLetters[k] = c]
    ELSE c
\* mutant of Lower: the text is not lower-cased
LowerIdentity(text) == text
Lower(text) == [j \in 1..Len(text) |-> LowerChar(text[j])]

IsLetter(c) == c \in Range(LowerLetters) \/ c \in Range(UpperLetters)
\* \w of the regular expression
IsWordChar(c) == IsLetter(c) \/ c \in Digits \/ c = "_"

MinWordLen == 3     \* the {3,} of line 50

RECURSIVE JoinTitles(_)
\* line 48: ' '.join(titles)
JoinTitles(titles) ==
    IF titles = <<>> THEN <<>>
    ELSE IF Len(titles) = 1 THEN titles[1]
    ELSE titles[1] \o <<" ">> \o JoinTitles(Tail(titles))

RECURSIVE RunEnd(_, _)
\* the last position of the run of letters that begins at pos
RunEnd(text, pos) ==
    IF pos < Len(text) /\ IsLetter(text[pos + 1]) THEN RunEnd(text, pos + 1)
    ELSE pos

RECURSIVE FindWordsFrom(_, _)
\* line 50: re.findall(r'\b[a-zA-Z]{3,}\b', text) from position pos on.  A
\* match is a maximal run of letters, at least MinWordLen long, with no word
\* character next to it on either side.
FindWordsFrom(text, pos) ==
    IF pos > Len(text) THEN <<>>
    ELSE IF ~IsLetter(text[pos]) THEN FindWordsFrom(text, pos + 1)
    ELSE LET e == RunEnd(text, pos)
             matches == /\ e - pos + 1 >= MinWordLen
                        /\ (pos = 1 \/ ~IsWordChar(text[pos - 1]))
                        /\ (e = Len(text) \/ ~IsWordChar(text[e + 1]))
         IN  (IF matches THEN <<SubSeq(text, pos, e)>> ELSE <<>>)
             \o FindWordsFrom(text, e + 1)

FindWords(text) == FindWordsFrom(text, 1)

----------------------------------------------------------------------------
(* analysis_and_viz.py: the cleaned artifact and one chunk of it *)

TitleDogsAreCats == <<"d","o","g","s"," ","a","r","e"," ","c","a","t","s">>

\* read_csv of a numeric cell: the year column holds "2020" or "2020.0"
NumberOfText(t) ==
    CASE t = "" -> Missing
      [] t \in {"0", "0.0"} -> Some(0)
      [] t \in {"1", "1.0"} -> Some(1)
      [] t \in {"2", "2.0"} -> Some(2)
      [] t \in {"3", "3.0"} -> Some(3)
      [] t \in {"2019", "2019.0"} -> Some(2019)
      [] t \in {"2020", "2020.0"} -> Some(2020)
      [] t \in {"2021", "2021.0"} -> Some(2021)

\* A row of the cleaned artifact, as clean_data_chunked writes it; only the
\* columns that the analysis and the page read are kept.
ArtifactRow(t, y, src) ==
    [title |-> t, year |-> y, source_x |-> src,
     title_word_count |-> IntText(WordCount(t))]

ATitles == {TitleCatsAndDogs, TitleDogsAreCats}
AYearTexts == {"", "2019", "2020.0"}
ASourceTexts == {"", "PMC"}
ARows == {ArtifactRow(t, y, src) : t \in ATitles, y \in AYearTexts,
                                   src \in ASourceTexts}

\* Eleven sources in thirteen rows: "s11" is the only source that occurs
\* twice, and one row has neither a source nor a year.
ManySourceLabels ==
    <<"s11","s10","s09","","s08","s07","s06","s05","s04","s03","s02","s01",
      "s11">>
ManySources ==
    [j \in 1..Len(ManySourceLabels) |->
        ArtifactRow(TitleCatsAndDogs,
                    IF ManySourceLabels[j] = "" THEN "" ELSE "2020",
                    ManySourceLabels[j])]

\* Two rows whose titles hold a short word, a word with a digit, a word with
\* an underscore, two words joined by a hyphen and an upper-case word:
\* "An rna2 sars-cov" and "old_x SARS"
TitleOddA ==
    <<"A","n"," ","r","n","a","2"," ","s","a","r","s","-","c","o","v">>
TitleOddB == <<"o","l","d","_","x"," ","S","A","R","S">>
OddTitles ==
    <<ArtifactRow(TitleOddA, "2020", "PMC"), ArtifactRow(TitleOddB, "2019", "PMC")>>

\* the labels of the model in lexical order, and the rank of each
LabelOrder ==
    <<"PMC","s01","s02","s03","s04","s05","s06","s07","s08","s09",
      "s10","s11">>
LabelRank == [l \in Range(LabelOrder) |->
                 CHOOSE k \in 1..Len(LabelOrder) : LabelOrder[k] = l]
YearRank == [y \in 2019..2021 |-> y]

ArtifactFiles(maxRows) ==
    {[kind |-> "absent", rows |-> <<>>], [kind |-> "empty", rows |-> <<>>]}
    \cup {[kind |-> "csv", rows |-> r] : r \in SeqsUpTo(ARows, maxRows)}
    \cup {[kind |-> "csv", rows |-> ManySources],
          [kind |-> "csv", rows |-> OddTitles]}

\* the non-missing values of one column of a chunk, in row order
Present(vals, missing) ==
    SelectRows(vals, {j \in 1..Len(vals) : vals[j] # missing})
YearColumn(chunk) ==
    LET col == [j \in 1..Len(chunk) |-> NumberOfText(chunk[j].year)]
        kept == Present(col, Missing)
    IN  [j \in 1..Len(kept) |-> ValueOf(kept[j])]
SourceColumn(chunk) ==
    Present([j \in 1..Len(chunk) |-> ReadCell(chunk[j].source_x)], NaN)
TitleColumn(chunk) ==
    Present([j \in 1..Len(chunk) |-> ReadTitleCell(chunk[j].title)], NaNTitle)
WordCountColumn(chunk) ==
    LET col == [j \in 1..Len(chunk) |-> NumberOfText(chunk[j].title_word_count)]
        kept == Present(col, Missing)
    IN  [j \in 1..Len(kept) |-> ValueOf(kept[j])]

----------------------------------------------------------------------------
(* analysis_and_viz.py: analyze_and_visualize_chunked *)

TopSources == 10    \* head(10) of line 63
TopWords == 50      \* head(50) of line 64

\* lines 17-27
AggStart ==
    [pc |-> "loop", i |-> 0, year_counts_agg |-> <<>>,
     source_counts_agg |-> <<>>, all_words |-> <<>>,
     title_word_counts_list |-> <<>>, year_counts_final |-> <<>>,
     top_sources_final |-> <<>>, top_words_final |-> <<>>]

\* lines 34-38
FoldYear(agg, chunk) == SeriesAdd(agg, ValueCounts(YearColumn(chunk)), YearRank)
\* lines 40-43
FoldSource(agg, chunk) ==
    SeriesAdd(agg, ValueCounts(SourceColumn(chunk)), LabelRank)
\* lines 45-52
FoldWords(counter, chunk) ==
    CounterUpdate(counter, FindWords(Lower(JoinTitles(TitleColumn(chunk)))))
\* lines 54-57
FoldWordCounts(list, chunk) == list \o WordCountColumn(chunk)

\* mutant of Fold: every other chunk is folded
FoldEveryOther(st, rows, W) ==
    IF st.i >= NumChunks(rows, W)
    THEN [st EXCEPT !.pc = "folded"]
    ELSE [st EXCEPT
            !.i = @ + 2,
            !.title_word_counts_list = FoldWordCounts(@, RawChunk(rows, W, st.i))]

\* lines 28-57: one iteration of the loop, or the end of the loop
Fold(st, rows, W) ==
    IF st.i >= NumChunks(rows, W)
    THEN [st EXCEPT !.pc = "folded"]
    ELSE LET chunk == RawChunk(rows, W, st.i)
         IN  [st EXCEPT
                !.i = @ + 1,
                !.year_counts_agg = FoldYear(@, chunk),
                !.source_counts_agg = FoldSource(@, chunk),
                !.all_words = FoldWords(@, chunk),
                !.title_word_counts_list = FoldWordCounts(@, chunk)]

\* line 62
FinalizeYears(agg) == SortByKey(agg, YearRank)
\* line 63
FinalizeSources(agg) == SeriesHead(agg, TopSources)
\* line 64
FinalizeWords(counter) == SeriesHead(counter, TopWords)

\* lines 61-64
Finalized(st) ==
    [st EXCEPT !.pc = "finalized",
               !.year_counts_final = FinalizeYears(st.year_counts_agg),
               !.top_sources_final = FinalizeSources(st.source_counts_agg),
               !.top_words_final = FinalizeWords(st.all_words)]

RECURSIVE FoldToEnd(_, _, _)
\* the analysis of a CSV artifact from the loop head to line 64
FoldToEnd(st, rows, W) ==
    CASE st.pc = "loop" -> FoldToEnd(Fold(st, rows, W), rows, W)
      [] st.pc = "folded" -> Finalized(st)
      [] OTHER -> st

AnalysisRun(rows, W) == FoldToEnd(AggStart, rows, W)

\* lines 77-140: the images written from the finalized aggregates
Rendered(st) ==
    (IF st.year_counts_final # <<>> THEN {"publications_by_year.png"} ELSE {})
    \cup (IF st.top_sources_final # <<>> THEN {"top_sources.png"} ELSE {})
    \cup (IF st.all_words # <<>> THEN {"title_wordcloud.png"} ELSE {})
    \cup (IF st.title_word_counts_list # <<>>
          THEN {"title_word_count_dist.png"} ELSE {})

AggState ==
    [pc |-> apc, i |-> ai, year_counts_agg |-> year_counts_agg,
     source_counts_agg |-> source_counts_agg, all_words |-> all_words,
     title_word_counts_list |-> title_word_counts_list,
     year_counts_final |-> year_counts_final,
     top_sources_final |-> top_sources_final,
     top_words_final |-> top_words_final]

SetAggState(st) ==
    /\ apc' = st.pc
    /\ ai' = st.i
    /\ year_counts_agg' = st.year_counts_agg
    /\ source_counts_agg' = st.source_counts_agg
    /\ all_words' = st.all_words
    /\ title_word_counts_list' = st.title_word_counts_list
    /\ year_counts_final' = st.year_counts_final
    /\ top_sources_final' = st.top_sources_final
    /\ top_words_final' = st.top_words_final

\* Window sizes of an analysis run: the small ones, 7, and 15000 (line 160),
\* which takes every artifact of the model as one window.
AnalysisWindows(maxRows) == (1..maxRows) \cup {7, 15000}

AnalysisIdle ==
    /\ apc = "idle"
    /\ ai = 0
    /\ year_counts_agg = <<>>
    /\ source_counts_agg = <<>>
    /\ all_words = <<>>
    /\ title_word_counts_list = <<>>
    /\ year_counts_final = <<>>
    /\ top_sources_final = <<>>
    /\ top_words_final = <<>>
    /\ visualizations = {}

\* lines 15-27, 144-147: the aggregators are created and the artifact is
\* opened; a missing or empty artifact makes read_csv raise, the handler
\* prints, and the function ends
AnalyzeStart ==
    /\ apc = "idle"
    /\ IF cleaned_data_file.kind = "csv" THEN SetAggState(AggStart)
       ELSE SetAggState([AggStart EXCEPT !.pc = "raised"])
    /\ UNCHANGED <<cleaned_data_file, achunksize, visualizations>>
    /\ UNCHANGED <<cleanVars, appVars>>

\* The file that clean_data_chunked wrote at 'cleaned_data.csv', read as the
\* cleaned_data_file of the analysis (the default of line 10).
ArtifactOf(file) ==
    IF file = Absent THEN [kind |-> "absent", rows |-> <<>>]
    ELSE [kind |-> "csv",
          rows |-> [k \in 1..Len(DataRows(file)) |-> DataRows(file)[k].cells]]

\* lines 158-160, 15-27, 144-147: the analysis script run after the cleaning
\* script, on the file the cleaning left
AnalyzeCleaned ==
    /\ Returned
    /\ via_main => report # "none"
    /\ apc = "idle"
    /\ cleaned_data_file' = ArtifactOf(output)
    /\ IF output # Absent THEN SetAggState(AggStart)
       ELSE SetAggState([AggStart EXCEPT !.pc = "raised"])
    /\ UNCHANGED <<achunksize, visualizations>>
    /\ UNCHANGED <<cleanVars, appVars>>

\* lines 28-57
FoldChunk ==
    /\ apc = "loop"
    /\ SetAggState(Fold(AggState, cleaned_data_file.rows, achunksize))
    /\ UNCHANGED <<cleaned_data_file, achunksize, visualizations>>
    /\ UNCHANGED <<cleanVars, appVars>>

\* lines 59-71
Finalize ==
    /\ apc = "folded"
    /\ SetAggState(Finalized(AggState))
    /\ UNCHANGED <<cleaned_data_file, achunksize, visualizations>>
    /\ UNCHANGED <<cleanVars, appVars>>

\* lines 73-142
Render ==
    /\ apc = "finalized"
    /\ apc' = "done"
    /\ visualizations' = Rendered(AggState)
    /\ UNCHANGED <<cleaned_data_file, achunksize, ai, year_counts_agg, source_counts_agg,
                   all_words, title_word_counts_list, year_counts_final,
                   top_sources_final, top_words_final>>
    /\ UNCHANGED <<cleanVars, appVars>>

----------------------------------------------------------------------------
(* app.py: frames as bags of rows *)

\* The page never depends on the order of the rows of a frame (sample()
\* shuffles them), so a frame is the bag of its rows: a function from the rows
\* that occur to the number of times each occurs.
EmptyFrame == [r \in {} |-> 0]

Copies(frame, r) == IF r \in DOMAIN frame THEN frame[r] ELSE 0

RECURSIVE SumOver(_, _)
SumOver(frame, rs) ==
    IF rs = {} THEN 0
    ELSE LET r == CHOOSE x \in rs : TRUE
         IN  frame[r] + SumOver(frame, rs \ {r})

\* len(frame)
FrameLen(frame) == SumOver(frame, DOMAIN frame)

Normal(frame) == [r \in {x \in DOMAIN frame : frame[x] > 0} |-> frame[r]]

\* pd.concat of two frames
Concat(a, b) ==
    [r \in (DOMAIN a) \cup (DOMAIN b) |-> Copies(a, r) + Copies(b, r)]

RECURSIVE ConcatAll(_)
\* line 60: pd.concat(chunks, ignore_index=True)
ConcatAll(list) ==
    IF list = <<>> THEN EmptyFrame ELSE Concat(Head(list), ConcatAll(Tail(list)))

Max(a, b) == IF a > b THEN a ELSE b

RECURSIVE SamplesOver(_, _, _)
\* the ways to take n rows of frame among its rows rs
SamplesOver(frame, rs, n) ==
    IF rs = {} THEN IF n = 0 THEN {EmptyFrame} ELSE {}
    ELSE LET r == CHOOSE x \in rs : TRUE
             rest == rs \ {r}
         IN  UNION {{Concat(g, [x \in {r} |-> k]) :
                        g \in SamplesOver(frame, rest, n - k)} :
                    k \in Max(0, n - SumOver(frame, rest))..Min(n, frame[r])}

\* frame.sample(n=n, random_state=seed): n of the rows.  Which rows the seed
\* picks is not modelled: every choice of n rows is a possible sample.
Samples(frame, n) == {Normal(f) : f \in SamplesOver(frame, DOMAIN frame, n)}

\* Python's round(num / den): to the nearest integer, a tie to the even one
RoundHalfEven(num, den) ==
    LET q == num \div den
        rem == num % den
    IN  IF 2 * rem < den THEN q
        ELSE IF 2 * rem > den THEN q + 1
        ELSE IF q % 2 = 0 THEN q ELSE q + 1

\* line 48: chunk.sample(frac=SAMPLE_FRAC) draws round(frac * len(chunk)) rows
ChunkSampleSize(len, pct) == RoundHalfEven(len * pct, 100)

\* mutant of FinalSampleSize: the product is rounded
FinalSampleSizeRounded(len, pct) == RoundHalfEven(len * pct, 100)

\* line 64: int(len(data) * SAMPLE_FRAC), the fraction taken as the exact
\* rational pct / 100
FinalSampleSize(len, pct) == (len * pct) \div 100

----------------------------------------------------------------------------
(* app.py: the file at DATA_FILE *)

AppChunkSize == 10000   \* chunksize of line 44

\* The rows of the file are given as runs: n copies of a row in sequence.
Run(r, n) == [row |-> r, n |-> n]

RECURSIVE RunsLen(_)
RunsLen(rs) == IF rs = <<>> THEN 0 ELSE Head(rs).n + RunsLen(Tail(rs))

RECURSIVE Slice(_, _, _, _)
\* the rows at positions from..to of the runs rs, the first row of rs being
\* at position at: a frame of rows as read_csv gives them
Slice(rs, at, from, to) ==
    IF rs = <<>> THEN EmptyFrame
    ELSE LET last == at + Head(rs).n - 1
             n == Min(last, to) - Max(at, from) + 1
             rest == Slice(Tail(rs), last + 1, from, to)
         IN  IF n > 0 THEN Concat(rest, [r \in {Head(rs).row} |-> n]) ELSE rest

AppNumChunks(rs) ==
    IF RunsLen(rs) = 0 THEN 1 ELSE (RunsLen(rs) + AppChunkSize - 1) \div AppChunkSize

\* line 44: chunk number k (from 1) of the file
AppChunk(rs, k) == Slice(rs, 1, (k - 1) * AppChunkSize + 1, k * AppChunkSize)

AppYearTexts == {"", "2019", "2020.0", "2021"}
AppRows == {ArtifactRow(TitleCatsAndDogs, y, src) :
               y \in AppYearTexts, src \in ASourceTexts}

RowOf2020 == ArtifactRow(TitleCatsAndDogs, "2020", "PMC")
RowOf2019 == ArtifactRow(TitleDogsAreCats, "2019", "")

\* a file of 1,000 equal rows, and one of 11,000 rows that is read in two chunks
ThousandRows == <<Run(RowOf2020, 1000)>>
TwoChunks == <<Run(RowOf2020, 10000), Run(RowOf2019, 1000)>>

NoFailure == [at |-> 0, exc |-> "none"]

\* kind "absent": no file; "empty": a file of zero bytes; "csv": a header and
\* the rows runs.  The columns of a file are the fields of its rows (the
\* abstract column, which the rows of the model do not carry, is in every
\* file); the files without the year or the source_x column have a row.
\* fail.at = k > 0: reading or sampling chunk k raises fail.exc
\* (a malformed row makes read_csv raise ParserError; MemoryError can be
\* raised by any allocation).
DataFiles(maxRows) ==
    {[kind |-> "absent", runs |-> <<>>, fail |-> NoFailure],
     [kind |-> "empty", runs |-> <<>>, fail |-> NoFailure]}
    \cup {[kind |-> "csv", runs |-> [j \in 1..Len(rows) |-> Run(rows[j], 1)],
           fail |-> NoFailure] : rows \in SeqsUpTo(AppRows, maxRows)}
    \cup {[kind |-> "csv",
           runs |-> [j \in 1..Len(rows) |-> Run(Without(rows[j], c), 1)],
           fail |-> NoFailure] :
             rows \in SeqsUpTo(AppRows, maxRows) \ {<<>>},
             c \in {"year", "source_x"}}
    \cup {[kind |-> "csv", runs |-> rs, fail |-> f] :
             rs \in {ThousandRows, TwoChunks},
             f \in {NoFailure} \cup
                   {[at |-> k, exc |-> e] :
                       k \in 1..2, e \in {"ParserError", "MemoryError"}}}

\* values of SAMPLE_FRAC, in percent: 5 is the value of line 13
SampleFracs == {5, 10, 50, 100}

----------------------------------------------------------------------------
(* app.py: load_sampled_data *)

\* a row of the frame: the year as a number (lines 76-77), the source as a
\* category or missing (lines 80-81); the columns are those of the file
LoadedRow(r) ==
    [c \in DOMAIN r |->
        CASE c = "title" -> ReadTitleCell(r.title)
          [] c \in {"year", "title_word_count"} -> NumberOfText(r[c])
          [] OTHER -> ReadCell(r[c])]

RECURSIVE Loaded(_, _)
\* lines 44, 74-81 for the rows rs of a frame
Loaded(frame, rs) ==
    IF rs = {} THEN EmptyFrame
    ELSE LET r == CHOOSE x \in rs : TRUE
         IN  Concat(Loaded(frame, rs \ {r}),
                    [x \in {LoadedRow(r)} |-> frame[r]])

ReadFrame(frame) == Loaded(frame, DOMAIN frame)

\* mutant of Handled: only the two named errors are handled, any other one
\* reaches the page
HandledNamedOnly(exc) ==
    [raised |-> exc \notin {"FileNotFoundError", "EmptyDataError"},
     df |-> EmptyFrame]

\* lines 91-107: every handler reports with st.error and returns an empty
\* frame; nothing is raised to the page
Handled(exc) == [raised |-> FALSE, df |-> EmptyFrame]

\* lines 59-69: the frames that the final re-sample can give
FinalSamples(data, pct) ==
    IF FinalSampleSize(FrameLen(data), pct) > 0
    THEN Samples(data, FinalSampleSize(FrameLen(data), pct))
    ELSE {data}

\* a name of the page script that no statement has assigned yet
Unbound == <<>>

LoadIdle ==
    /\ lpc = "idle"
    /\ chunk_count = 0
    /\ total_rows_read = 0
    /\ chunks = <<>>
    /\ df = EmptyFrame
    /\ load_raised = FALSE

PageIdle ==
    /\ ppc = "idle"
    /\ filtered_df = EmptyFrame
    /\ year_range = Unbound
    /\ selected_sources = {}
    /\ year_counts_filtered = EmptyFrame

pageVars == <<ppc, filtered_df, year_range, selected_sources,
              year_counts_filtered>>

LoadReturn(outcome) ==
    /\ lpc' = "returned"
    /\ df' = outcome.df
    /\ load_raised' = outcome.raised

\* lines 20-44: the existence check, and the opening of the file
LoadStart ==
    /\ lpc = "idle"
    /\ CASE data_file.kind = "absent" ->
              LoadReturn([raised |-> FALSE, df |-> EmptyFrame])
         [] data_file.kind = "empty" -> LoadReturn(Handled("EmptyDataError"))
         [] OTHER -> lpc' = "loop" /\ UNCHANGED <<df, load_raised>>
    /\ UNCHANGED <<data_file, sample_frac, chunk_count, total_rows_read, chunks>>
    /\ UNCHANGED pageVars
    /\ UNCHANGED <<cleanVars, analysisVars>>

\* lines 44-49: one chunk is read and sampled
SampleChunk ==
    /\ lpc = "loop"
    /\ chunk_count < AppNumChunks(data_file.runs)
    /\ IF data_file.fail.at = chunk_count + 1
       THEN /\ LoadReturn(Handled(data_file.fail.exc))
            /\ UNCHANGED <<chunk_count, total_rows_read, chunks>>
       ELSE LET chunk == ReadFrame(AppChunk(data_file.runs, chunk_count + 1))
            IN  /\ chunk_count' = chunk_count + 1
                /\ total_rows_read' = total_rows_read + FrameLen(chunk)
                /\ \E sampled_chunk \in
                        Samples(chunk, ChunkSampleSize(FrameLen(chunk), sample_frac)) :
                      chunks' = Append(chunks, sampled_chunk)
                /\ UNCHANGED <<lpc, df, load_raised>>
    /\ UNCHANGED <<data_file, sample_frac>>
    /\ UNCHANGED pageVars
    /\ UNCHANGED <<cleanVars, analysisVars>>

\* lines 55-89: after the last chunk
LoadFinish ==
    /\ lpc = "loop"
    /\ chunk_count >= AppNumChunks(data_file.runs)
    /\ IF chunks = <<>>
       THEN LoadReturn([raised |-> FALSE, df |-> EmptyFrame])
       ELSE \E data \in FinalSamples(ConcatAll(chunks), sample_frac) :
               LoadReturn([raised |-> FALSE, df |-> data])
    /\ UNCHANGED <<data_file, sample_frac, chunk_count, total_rows_read, chunks>>
    /\ UNCHANGED pageVars
    /\ UNCHANGED <<cleanVars, analysisVars>>

----------------------------------------------------------------------------
(* app.py: the page *)

loadVars == <<data_file, sample_frac, lpc, chunk_count, total_rows_read,
              chunks, df, load_raised>>

\* df.columns of a frame that has a row
Columns(frame) == DOMAIN (CHOOSE r \in DOMAIN frame : TRUE)

HasYear(r) == r.year # Missing
\* line 132: df['year'].dropna()
ValidYears(frame) == {ValueOf(r.year) : r \in {x \in DOMAIN frame : HasYear(x)}}
MinOf(S) == CHOOSE x \in S : \A y \in S : x <= y
MaxOf(S) == CHOOSE x \in S : \A y \in S : x >= y

\* mutant of InYearRange: the upper end of the range is left out
InYearRangeExclusive(r, lo, hi) ==
    HasYear(r) /\ ValueOf(r.year) >= lo /\ ValueOf(r.year) < hi

\* line 144: (df['year'] >= year_range[0]) & (df['year'] <= year_range[1]);
\* a comparison with a missing year is False
InYearRange(r, lo, hi) ==
    HasYear(r) /\ ValueOf(r.year) >= lo /\ ValueOf(r.year) <= hi

\* mutant of YearFiltered: the rows without a year pass the range filter
YearFilteredKeepingMissing(frame, lo, hi) ==
    [r \in {x \in DOMAIN frame : ~HasYear(x) \/ InYearRange(x, lo, hi)} |->
        frame[r]]

YearFiltered(frame, lo, hi) ==
    [r \in {x \in DOMAIN frame : InYearRange(x, lo, hi)} |-> frame[r]]

\* line 151: the categories of the source column
UniqueSources(frame) == {r.source_x : r \in {x \in DOMAIN frame : x.source_x # NaN}}

\* line 163: filtered_df['source_x'].isin(selected_sources)
SourceFiltered(frame, selected) ==
    [r \in {x \in DOMAIN frame : x.source_x \in selected} |-> frame[r]]

\* lines 226-228: the counts by year of the rows of frame that have a year
YearDistribution(frame) ==
    [y \in ValidYears(frame) |->
        SumOver(frame, {r \in DOMAIN frame : HasYear(r) /\ ValueOf(r.year) = y})]

\* lines 268-269: the frame is empty, the page shows the no-data notice and
\* evaluates no filter
PageNoData ==
    /\ lpc = "returned" /\ ~load_raised
    /\ ppc = "idle"
    /\ FrameLen(df) = 0
    /\ ppc' = "no_data"
    /\ UNCHANGED <<filtered_df, year_range, selected_sources, year_counts_filtered>>
    /\ UNCHANGED loadVars
    /\ UNCHANGED <<cleanVars, analysisVars>>

\* lines 131-147: the year filter.  Line 132 reads df['year'] without a test
\* for the column: without it the read raises KeyError and the page stops.
PageYearFilter ==
    /\ lpc = "returned" /\ ~load_raised
    /\ ppc = "idle"
    /\ FrameLen(df) > 0
    /\ LET valid_years == ValidYears(df)
       IN  IF "year" \notin Columns(df)
           THEN /\ ppc' = "key_error"
                /\ UNCHANGED <<filtered_df, year_range>>
           ELSE IF valid_years = {}
           THEN /\ ppc' = "no_valid_years"
                /\ filtered_df' = df
                /\ UNCHANGED year_range
           ELSE IF MinOf(valid_years) = MaxOf(valid_years)
           THEN /\ ppc' = "single_year"
                /\ year_range' = <<MinOf(valid_years), MaxOf(valid_years)>>
                /\ filtered_df' = df
           ELSE \E lo \in MinOf(valid_years)..MaxOf(valid_years) :
                \E hi \in lo..MaxOf(valid_years) :
                   /\ ppc' = "year_filtered"
                   /\ year_range' = <<lo, hi>>
                   /\ filtered_df' = YearFiltered(df, lo, hi)
    /\ UNCHANGED <<selected_sources, year_counts_filtered>>
    /\ UNCHANGED loadVars
    /\ UNCHANGED <<cleanVars, analysisVars>>

\* lines 149-167: the source filter, on top of the year filter
PageSourceFilter ==
    /\ ppc \in {"no_valid_years", "single_year", "year_filtered"}
    /\ IF "source_x" \in Columns(df) /\ UniqueSources(df) # {}
       THEN \E selected \in SUBSET UniqueSources(df) :
               /\ selected_sources' = selected
               /\ filtered_df' = IF selected # {}
                                 THEN SourceFiltered(filtered_df, selected)
                                 ELSE filtered_df
       ELSE UNCHANGED <<selected_sources, filtered_df>>
    /\ ppc' = "source_filtered"
    /\ UNCHANGED <<year_range, year_counts_filtered>>
    /\ UNCHANGED loadVars
    /\ UNCHANGED <<cleanVars, analysisVars>>

\* lines 170-177: the overview.  Line 171 reads year_range, which the branch
\* of lines 145-147 leaves unassigned: the read raises NameError and the page
\* stops there.  Line 177 selects the display columns, and raises KeyError
\* when one of them is not a column of the frame.
PageOverview ==
    /\ ppc = "source_filtered"
    /\ ppc' = IF year_range = Unbound THEN "raised"
              ELSE IF ~({"title", "year", "source_x"} \subseteq Columns(df))
              THEN "key_error"
              ELSE "overview"
    /\ UNCHANGED <<filtered_df, year_range, selected_sources, year_counts_filtered>>
    /\ UNCHANGED loadVars
    /\ UNCHANGED <<cleanVars, analysisVars>>

\* lines 224-244: the dynamic year plot
PageYearPlot ==
    /\ ppc = "overview"
    /\ ppc' = "plotted"
    /\ year_counts_filtered' = IF FrameLen(filtered_df) > 0
                               THEN YearDistribution(filtered_df)
                               ELSE EmptyFrame
    /\ UNCHANGED <<filtered_df, year_range, selected_sources>>
    /\ UNCHANGED loadVars
    /\ UNCHANGED <<cleanVars, analysisVars>>

----------------------------------------------------------------------------
(* Specifications *)

\* a program that a specification does not run stays where it is
CleanNotRun ==
    /\ CleanIdle
    /\ input = [kind |-> "absent", rows |-> <<>>]
    /\ chunksize = 10000
AnalysisNotRun ==
    /\ AnalysisIdle
    /\ cleaned_data_file = [kind |-> "absent", rows |-> <<>>]
    /\ achunksize = 15000
AppNotRun ==
    /\ LoadIdle
    /\ PageIdle
    /\ data_file = [kind |-> "absent", runs |-> <<>>, fail |-> NoFailure]
    /\ sample_frac = 5

\* a cleaning run on an absent destination
InitCleanWith(maxRows) ==
    /\ CleanIdle
    /\ input \in InputFiles(maxRows)
    /\ chunksize \in Windows(maxRows)
InitClean == InitCleanWith(MaxRows) /\ AnalysisNotRun /\ AppNotRun
NextClean == MainStart \/ CallStart \/ ProcessChunk \/ Finish \/ MainReport
SpecClean == InitClean /\ [][NextClean]_vars

\* cleaning runs repeated on one destination
InitRerun == InitCleanWith(MaxRerunRows) /\ AnalysisNotRun /\ AppNotRun
NextRerun == NextClean \/ Again \/ ReplaceInput
SpecRerun == InitRerun /\ [][NextRerun]_vars

\* an analysis run
InitAnalysis ==
    /\ CleanNotRun
    /\ AppNotRun
    /\ AnalysisIdle
    /\ cleaned_data_file \in ArtifactFiles(MaxARows)
    /\ achunksize \in AnalysisWindows(MaxARows)
NextAnalysis == AnalyzeStart \/ FoldChunk \/ Finalize \/ Render
SpecAnalysis == InitAnalysis /\ [][NextAnalysis]_vars

\* a cleaning run, then an analysis run on the file it wrote
InitPipeline ==
    /\ InitCleanWith(MaxPRows)
    /\ AnalysisIdle
    /\ cleaned_data_file = [kind |-> "absent", rows |-> <<>>]
    /\ achunksize \in {1, 15000}
    /\ AppNotRun
NextPipeline ==
    \/ MainStart \/ CallStart \/ ProcessChunk \/ Finish \/ MainReport
    \/ AnalyzeCleaned \/ FoldChunk \/ Finalize \/ Render
SpecPipeline == InitPipeline /\ [][NextPipeline]_vars

\* one run of the page: the sample is loaded, then filtered and plotted
InitApp ==
    /\ CleanNotRun
    /\ AnalysisNotRun
    /\ LoadIdle
    /\ PageIdle
    /\ data_file \in DataFiles(MaxSRows)
    /\ sample_frac \in SampleFracs
NextApp ==
    \/ LoadStart \/ SampleChunk \/ LoadFinish
    \/ PageNoData \/ PageYearFilter \/ PageSourceFilter \/ PageOverview
    \/ PageYearPlot
SpecApp == InitApp /\ [][NextApp]_vars

----------------------------------------------------------------------------
(* Claims about the cleaning run *)

\* a CSV input with every column the cleaning reads and no malformed line
WellFormed(inp) ==
    /\ inp.kind = "csv"
    /\ \A k \in 1..Len(inp.rows) :
          DOMAIN inp.rows[k] =
              {"title", "abstract", "publish_time", "journal", "source_x"}

\* the records of the input whose title read_csv does not read as missing
TitlePresent(r) == r.title \notin NaTitleTexts
PresentRows(rows) ==
    SelectRows(rows, {k \in 1..Len(rows) : TitlePresent(rows[k])})

\* the fields of a record that cleaning passes through unchanged
Passed(cells) == [title |-> cells.title, source_x |-> cells.source_x]
PassedOf(lines) == [k \in 1..Len(lines) |-> Passed(lines[k])]
WrittenCells(file) ==
    LET rows == DataRows(file) IN [k \in 1..Len(rows) |-> rows[k].cells]

\* C1: a cleaning run started on an absent output file writes the same
\* artifact (header, rows, the written form of every cell, order) whatever the
\* window size.  Stated for the runs that reach their normal return, under
\* both window sizes.
C1_WindowSizeNeverChangesOutput ==
    (cpc = "returned" /\ start_output = Absent)
        => \A W \in Windows(MaxRows) :
              LET other == CleanRun(input, Absent, W)
              IN  other.pc = "returned" => other.output = output

\* C2: after a complete cleaning run on an absent output file, the records
\* written are exactly the input records whose title is present, each once.
C2_WrittenIffTitlePresent ==
    (cpc = "returned" /\ start_output = Absent)
        => PassedOf(WrittenCells(output)) = PassedOf(PresentRows(input.rows))

\* C2 witness: a complete run that dropped a record and wrote another
C2_Witness ==
    /\ cpc = "returned"
    /\ start_output = Absent
    /\ \E k \in 1..Len(input.rows) : ~TitlePresent(input.rows[k])
    /\ \E k \in 1..Len(input.rows) : TitlePresent(input.rows[k])
    /\ Len(DataRows(output)) >= 1

\* C3: in a run whose input has a window that is non-empty after cleaning, the
\* header is written exactly once, as the first line; a window that is empty
\* after cleaning does not prevent a later non-empty window from writing it.
SomeWindowKeepsARow ==
    \E k \in 0..(NumChunks(input.rows, chunksize) - 1) :
        Len(CleanFrame(ReadChunk(input.rows, chunksize, k))) > 0
C3_HeaderOnceByFirstNonEmptyBatch ==
    (Returned /\ WellFormed(input) /\ start_output = Absent
        /\ SomeWindowKeepsARow)
        => HeaderCount(output) = 1 /\ output[1].kind = "header"

\* C4: after any sequence of cleaning runs on one destination, the artifact
\* holds one header and exactly the rows of the latest run.
C4_NoMergeWithStaleOutput ==
    (cpc = "returned" /\ output # Absent)
        => /\ HeaderCount(output) = 1
           /\ DataRows(output) = DataRows(CleanRun(input, Absent, chunksize).output)

\* the number of whitespace-separated tokens of a title: a token ends at
\* every non-blank character that the end of the title or a blank follows
TokenCount(t) ==
    Cardinality({j \in 1..Len(t) :
                    /\ t[j] # " "
                    /\ (j = Len(t) \/ t[j + 1] = " ")})

\* C12: in every row of the cleaned artifact, title_word_count is present,
\* non-negative and equal to the number of whitespace-separated tokens of
\* the title of that row.
C12_WordCountIsTokenCount ==
    \A k \in 1..Len(DataRows(output)) :
        LET cells == DataRows(output)[k].cells
        IN  /\ cells.title_word_count # ""
            /\ \E n \in 0..Len(cells.title) :
                  /\ cells.title_word_count = IntText(n)
                  /\ n = TokenCount(cells.title)

\* C12 witness: a title of three tokens and a blank title, both written
C12_Witness ==
    /\ \E k \in 1..Len(DataRows(output)) :
          /\ DataRows(output)[k].cells.title = TitleCatsAndDogs
          /\ DataRows(output)[k].cells.title_word_count = "3"
    /\ \E k \in 1..Len(DataRows(output)) :
          /\ DataRows(output)[k].cells.title = TitleBlank
          /\ DataRows(output)[k].cells.title_word_count = "0"

\* the input has a title column and no abstract or no publish_time column
LacksOptionalColumn(inp) ==
    /\ inp.kind = "csv"
    /\ Len(inp.rows) > 0
    /\ \A k \in 1..Len(inp.rows) :
          /\ "title" \in DOMAIN inp.rows[k]
          /\ "overflow" \notin DOMAIN inp.rows[k]
          /\ ~({"abstract", "publish_time"} \subseteq DOMAIN inp.rows[k])

\* C14: a cleaning run on an input that has the title column and lacks the
\* abstract or the publish_time column completes, and writes every record
\* whose title is present.
C14_AbsentOptionalColumnNotFatal ==
    (Returned /\ start_output = Absent /\ LacksOptionalColumn(input))
        => /\ cpc = "returned"
           /\ PassedOf(WrittenCells(output)) = PassedOf(PresentRows(input.rows))

\* the records of the batches 0..k-1 of the input
BatchesBefore(k) ==
    SubSeq(input.rows, 1, Min(k * chunksize, Len(input.rows)))

\* processing batch k of the input fails
BatchFails(k) ==
    LET raw == RawChunk(input.rows, chunksize, k)
        frame == ReadChunk(input.rows, chunksize, k)
    IN  \/ ParserErrorRaises(raw)
        \/ KeyErrorRaises(frame)
        \/ StrAccessorRaises(frame)

SomeBatchFails ==
    /\ input.kind = "csv"
    /\ \E k \in 0..(NumChunks(input.rows, chunksize) - 1) : BatchFails(k)

FirstFailingBatch ==
    CHOOSE k \in 0..(NumChunks(input.rows, chunksize) - 1) :
        BatchFails(k) /\ \A j \in 0..(k - 1) : ~BatchFails(j)

\* C17: when processing batch k fails, no later batch is read or written,
\* the run returns None, and the output holds the rows of the batches before
\* k as they were appended; once the run has aborted nothing changes them.
C17_FailureAbortsLeavingPartialOutput ==
    /\ []((SomeBatchFails /\ start_output = Absent /\ cpc # "idle") =>
            /\ i <= FirstFailingBatch
            /\ cpc \notin {"finished", "returned"}
            /\ Len(DataRows(output)) <= Len(PresentRows(BatchesBefore(FirstFailingBatch)))
            /\ cpc = "raised" =>
                  /\ result = RNone
                  /\ i = FirstFailingBatch
                  /\ PassedOf(WrittenCells(output)) =
                        PassedOf(PresentRows(BatchesBefore(FirstFailingBatch))))
    /\ [][cpc = "raised" => (cpc' = "idle" \/ (cpc' = "raised" /\ output' = output
                                               /\ i' = i /\ result' = result))]_vars

\* C17 witness: the second batch failed at a malformed line and the row of
\* the first is in place
C17_Witness ==
    /\ cpc = "raised"
    /\ input.kind = "csv"
    /\ i = 1
    /\ ParserErrorRaises(RawChunk(input.rows, chunksize, 1))
    /\ Len(DataRows(output)) = 1
    /\ result = RNone

\* a record by the fields that tell it from the others of the input
KeyOfRecord(r) ==
    [title |-> r.title,
     publish_time |-> IF r.publish_time \in Dates THEN r.publish_time ELSE ""]
KeysOf(rows) == [k \in 1..Len(rows) |-> KeyOfRecord(rows[k])]

RECURSIVE AllBatches(_)
\* the batches 0..k-1 of the input, one after the other
AllBatches(k) ==
    IF k = 0 THEN <<>>
    ELSE AllBatches(k - 1) \o RawChunk(input.rows, chunksize, k - 1)

\* C20: the batches of a run cover the input records once each, in file
\* order; the rows of the cleaned artifact are the records of the batches
\* processed so far whose title is present, in the order of the input, so
\* that they are never more than the input records.
C20_OrderPreserved ==
    (WellFormed(input) /\ start_output = Absent)
        => /\ AllBatches(NumChunks(input.rows, chunksize)) = input.rows
           /\ Len(DataRows(output)) <= Len(input.rows)
           /\ KeysOf(WrittenCells(output)) = KeysOf(PresentRows(BatchesBefore(i)))
           /\ cpc = "returned" =>
                 KeysOf(WrittenCells(output)) = KeysOf(PresentRows(input.rows))

\* C20 witness: two batches, the second record dropped, two different rows
\* written
C20_Witness ==
    /\ cpc = "returned"
    /\ WellFormed(input)
    /\ i = 2
    /\ Len(DataRows(output)) = 2
    /\ KeyOfRecord(DataRows(output)[1].cells) # KeyOfRecord(DataRows(output)[2].cells)
    /\ ~TitlePresent(input.rows[2])

\* the written rows of the records whose publish_time is a text that is no
\* date: the rows k of the output such that the k-th record with a title of
\* the batches processed so far has such a publish_time
ParseFailed(r) == r.publish_time = "n.d."
ParseFailedWritten ==
    {k \in 1..Len(PresentRows(BatchesBefore(i))) :
        ParseFailed(PresentRows(BatchesBefore(i))[k])}

\* C15: a record with a title whose publish_time fails to parse is written,
\* with publish_time and year missing; its batch is not aborted for it; and
\* the year counter of the analysis of the written file counts exactly the
\* rows that have a year, so never that record.
C15_ParseFailureSurvives ==
    (WellFormed(input) /\ start_output = Absent) =>
        /\ Len(DataRows(output)) = Len(PresentRows(BatchesBefore(i)))
        /\ \A k \in ParseFailedWritten :
              LET cells == DataRows(output)[k].cells
              IN  /\ cells.title = PresentRows(BatchesBefore(i))[k].title
                  /\ cells.year = ""
                  /\ cells.publish_time = ""
        /\ cpc = "raised" =>
              \A k \in 1..Len(RawChunk(input.rows, chunksize, i)) :
                  ~TitlePresent(RawChunk(input.rows, chunksize, i)[k])
        /\ apc \in {"folded", "finalized", "done"} =>
              /\ Len(cleaned_data_file.rows) = Len(DataRows(output))
              /\ Total(year_counts_agg) =
                    Cardinality({k \in 1..Len(PresentRows(BatchesBefore(i))) :
                         PresentRows(BatchesBefore(i))[k].publish_time
                             \in Dates})

\* C15 witness: a record that failed to parse and a dated one were written,
\* and the analysis counted one year
C15_Witness ==
    /\ WellFormed(input)
    /\ apc = "done"
    /\ Len(DataRows(output)) = 2
    /\ ParseFailedWritten # {}
    /\ Total(year_counts_agg) = 1

\* C16: when the input file does not exist, the cleaning run returns None and
\* the output file is as it was before the call (not created, and an existing
\* one not changed); the script reports the failure; when the cleaned
\* artifact does not exist, the analysis run writes no visualization.
C16_AbsentInputNoOutput ==
    /\ (input.kind = "absent" /\ cpc # "idle") =>
          /\ cpc = "raised"
          /\ result = RNone
          /\ output = start_output
          /\ report \in {"none", "failed"}
    /\ output # Absent =>
          LET again == CleanRun([kind |-> "absent", rows |-> <<>>], output, chunksize)
          IN  again.output = output /\ again.result = RNone
    /\ (cleaned_data_file.kind = "absent" /\ apc # "idle") =>
          /\ apc = "raised"
          /\ visualizations = {}
          /\ year_counts_final = <<>>
          /\ top_sources_final = <<>>
          /\ top_words_final = <<>>

\* C16 witness: no input, the script reported the failure, and the analysis
\* found no artifact
C16_Witness ==
    /\ input.kind = "absent"
    /\ report = "failed"
    /\ output = Absent
    /\ apc = "raised"
    /\ visualizations = {}

----------------------------------------------------------------------------
(* Claims about the analysis run *)

\* the values of a list with their multiplicities
BagOf(list) == [v \in Range(list) |-> Occurrences(list, v)]

\* the whole artifact folded as a single window
WholeFile == AnalysisRun(cleaned_data_file.rows, 15000)

SameAggregates(x, y) ==
    /\ AsMap(x.year_counts_agg) = AsMap(y.year_counts_agg)
    /\ AsMap(x.source_counts_agg) = AsMap(y.source_counts_agg)
    /\ AsMap(x.all_words) = AsMap(y.all_words)
    /\ BagOf(x.title_word_counts_list) = BagOf(y.title_word_counts_list)
SameFinalResults(x, y) ==
    /\ AsMap(x.year_counts_final) = AsMap(y.year_counts_final)
    /\ AsMap(x.top_sources_final) = AsMap(y.top_sources_final)
    /\ AsMap(x.top_words_final) = AsMap(y.top_words_final)

\* The running aggregates after the last window are those of the
\* single-window run (the part of C5 that is about the fold alone).
AggregateStateSameAsWhole ==
    apc \in {"folded", "finalized", "done"}
        => SameAggregates(AggState, WholeFile)

\* C5: folding the artifact in windows of any size gives the aggregate state
\* of the single-window run, and the same finalized results.
C5_PartitionDoesNotChangeResults ==
    apc \in {"finalized", "done"}
        => LET whole == WholeFile
           IN  SameAggregates(AggState, whole) /\ SameFinalResults(AggState, whole)

\* the rows of the artifact whose cell of column col is not missing
RowsWith(col) ==
    {j \in 1..Len(cleaned_data_file.rows) :
        cleaned_data_file.rows[j][col] \notin NaTexts}

TopOf(final, agg) ==
    \A j \in 1..Len(agg) : \A k \in 1..Len(final) :
        agg[j].key \in Range(Keys(final)) \/ agg[j].n <= final[k].n
C7_TopNHaveHighestCounts ==
    apc \in {"finalized", "done"}
        => /\ TopOf(top_sources_final, source_counts_agg)
           /\ TopOf(top_words_final, all_words)

\* the tokens that the rule of line 50 is to find in each title of the model
WordCats == <<"c","a","t","s">>
WordDogs == <<"d","o","g","s">>
WordAnd == <<"a","n","d">>
WordAre == <<"a","r","e">>
WordSars == <<"s","a","r","s">>
WordCov == <<"c","o","v">>
ExpectedTokens(t) ==
    CASE t = TitleCatsAndDogs -> <<WordCats, WordAnd, WordDogs>>
      [] t = TitleDogsAreCats -> <<WordDogs, WordAre, WordCats>>
      [] t = TitleOddA -> <<WordSars, WordCov>>
      [] t = TitleOddB -> <<WordSars>>

RECURSIVE ExpectedCount(_, _)
\* the number of times the token w is expected in the titles of rows
ExpectedCount(rows, w) ==
    IF rows = <<>> THEN 0
    ELSE Occurrences(ExpectedTokens(Head(rows).title), w)
         + ExpectedCount(Tail(rows), w)

\* C13: once every batch is folded, the token table counts exactly the
\* lower-cased alphabetic tokens of at least 3 letters of all the titles of
\* all the batches; for the titles "Cats And Dogs", "dogs are cats" it is
\* {cats: 2, and: 1, dogs: 2, are: 1}; no key is shorter than 3 letters or
\* holds a character that is not a lower-case letter.
C13_TokenTable ==
    apc = "folded" =>
        LET rows == cleaned_data_file.rows
        IN  /\ \A j \in 1..Len(all_words) :
                  LET e == all_words[j]
                  IN  /\ Len(e.key) >= 3
                      /\ \A k \in 1..Len(e.key) : e.key[k] \in Range(LowerLetters)
                      /\ e.n = ExpectedCount(rows, e.key)
            /\ \A j \in 1..Len(rows) :
                  \A k \in 1..Len(ExpectedTokens(rows[j].title)) :
                      ExpectedTokens(rows[j].title)[k] \in Range(Keys(all_words))
            /\ [j \in 1..Len(rows) |-> rows[j].title]
                    = <<TitleCatsAndDogs, TitleDogsAreCats>>
                  => AsMap(all_words) = {<<WordCats, 2>>, <<WordAnd, 1>>,
                                         <<WordDogs, 2>>, <<WordAre, 1>>}

\* C13 witness: the two titles of the example, folded in two batches
C13_Witness ==
    /\ apc = "folded"
    /\ achunksize = 1
    /\ Len(cleaned_data_file.rows) = 2
    /\ cleaned_data_file.rows[1].title = TitleCatsAndDogs
    /\ cleaned_data_file.rows[2].title = TitleDogsAreCats
    /\ CountIn(all_words, WordCats) = 2

\* the aggregators are as lines 18-21 create them
AggregatorsEmpty ==
    /\ year_counts_agg = <<>>
    /\ source_counts_agg = <<>>
    /\ all_words = <<>>
    /\ title_word_counts_list = <<>>
FinalsEmpty ==
    /\ year_counts_final = <<>>
    /\ top_sources_final = <<>>
    /\ top_words_final = <<>>

\* C18: the aggregate state is empty before the first batch; after ai steps it
\* holds the batches 0..ai-1 folded once each in that order; it is finalized
\* only after the last batch, once, and nothing folds or finalizes after.
C18_AggregateLifecycle ==
    /\ []((apc = "loop" /\ ai = 0) => AggregatorsEmpty)
    /\ [](apc \in {"idle", "loop", "folded", "raised"} => FinalsEmpty)
    /\ [](apc \in {"folded", "finalized", "done"} =>
            ai = NumChunks(cleaned_data_file.rows, achunksize))
    /\ [](apc \in {"loop", "folded", "finalized", "done"} =>
            title_word_counts_list =
                WordCountColumn(SubSeq(cleaned_data_file.rows, 1,
                                       Min(ai * achunksize,
                                           Len(cleaned_data_file.rows)))))
    /\ [][/\ ai' \in {ai, ai + 1}
          /\ ai' = ai + 1 => (apc = "loop" /\ apc' = "loop")
          /\ (apc' = "finalized" /\ apc # "finalized") => apc = "folded"
          /\ apc \in {"finalized", "done"} =>
                /\ apc' \in {"finalized", "done"}
                /\ <<year_counts_agg, source_counts_agg, all_words,
                      title_word_counts_list, year_counts_final,
                      top_sources_final, top_words_final>>'
                   = <<year_counts_agg, source_counts_agg, all_words,
                       title_word_counts_list, year_counts_final,
                       top_sources_final, top_words_final>>]_vars

\* C18 witness: a run of three batches that was finalized and rendered
C18_Witness ==
    /\ apc = "done"
    /\ ai = 3
    /\ achunksize = 1
    /\ Len(top_words_final) > 0
    /\ Len(year_counts_final) > 0

----------------------------------------------------------------------------
(* Claims about the sampling loader and the page *)

Abs(n) == IF n < 0 THEN 0 - n ELSE n

LoadedAll == lpc = "returned" /\ data_file.fail = NoFailure

\* C8: the loader run on a 1,000-row artifact with fraction 0.10 returns a
\* number of rows within a small absolute tolerance (10 rows) of 100, the
\* same on every run.
C8_ThousandRowsGiveAboutHundred ==
    (LoadedAll /\ data_file.runs = ThousandRows /\ sample_frac = 10)
        => Abs(FrameLen(df) - 100) <= 10

\* the cases in which the loader has nothing to return: no artifact, an empty
\* one, one without rows, or an error while reading or sampling
NothingToLoad ==
    \/ data_file.kind \in {"absent", "empty"}
    \/ RunsLen(data_file.runs) = 0
    \/ data_file.fail.at \in 1..AppNumChunks(data_file.runs)

\* C9: load_sampled_data never raises to the page; when the artifact is
\* absent, empty, without rows, or an error occurs while it is read or
\* sampled, the loader returns an empty frame, and with an empty frame the
\* page shows the no-data notice and evaluates no filter.
C9_LoaderNeverRaises ==
    /\ ~load_raised
    /\ (lpc = "returned" /\ NothingToLoad) => FrameLen(df) = 0
    /\ (lpc = "returned" /\ FrameLen(df) = 0) =>
          /\ ppc \in {"idle", "no_data"}
          /\ filtered_df = EmptyFrame
          /\ year_range = Unbound
          /\ selected_sources = {}
    /\ lpc # "returned" => ppc = "idle"

C9_Witness ==
    /\ data_file.fail.at = 2
    /\ chunk_count = 1
    /\ lpc = "returned"
    /\ ppc = "no_data"

\* the rows of frame of year y
CountOfYear(frame, y) ==
    SumOver(frame, {r \in DOMAIN frame : r.year = Some(y)})

\* C10: the year filter with the range [lo, hi] returns exactly the rows of
\* the sample whose year is present and lies in lo..hi, each as many times
\* as the sample has it; the year distribution recomputed for the plot counts
\* the filtered rows by year, and is empty when no row is left.
C10_YearRangeIsInclusive ==
    /\ ppc = "year_filtered" =>
          /\ DOMAIN filtered_df \subseteq DOMAIN df
          /\ \A r \in DOMAIN df :
                Copies(filtered_df, r) =
                    IF /\ r.year # Missing
                       /\ \E y \in year_range[1]..year_range[2] : r.year = Some(y)
                    THEN df[r] ELSE 0
    /\ ppc = "plotted" =>
          /\ \A y \in DOMAIN year_counts_filtered :
                /\ year_counts_filtered[y] > 0
                /\ year_counts_filtered[y] = CountOfYear(filtered_df, y)
          /\ \A r \in DOMAIN filtered_df :
                r.year # Missing => ValueOf(r.year) \in DOMAIN year_counts_filtered
          /\ FrameLen(filtered_df) = 0 => year_counts_filtered = EmptyFrame

\* the range [2020, 2020] on a sample with the years 2019, 2020 and 2021
C10_Witness ==
    /\ ppc = "year_filtered"
    /\ ValidYears(df) = {2019, 2020, 2021}
    /\ year_range = <<2020, 2020>>
    /\ ValidYears(filtered_df) = {2020}
    /\ FrameLen(filtered_df) = 1

\* C11: on a sample with rows that has no year column or no source_x column,
\* no error is raised, the year filter of a sample without years leaves the
\* sample as it is, and the source filter of a sample without sources selects
\* nothing.
C11_AbsentFieldPassesThrough ==
    (lpc = "returned" /\ FrameLen(df) > 0
        /\ ~({"year", "source_x"} \subseteq Columns(df)))
        => /\ ppc # "key_error"
           /\ ("year" \notin Columns(df) /\ ppc # "idle") => filtered_df = df
           /\ ("source_x" \notin Columns(df) /\ ppc = "source_filtered")
                 => selected_sources = {}

\* the rows of the concatenation of line 60
TotalSampled == FrameLen(ConcatAll(chunks))

\* C19 as stated: the final re-sample leaves round(total_sampled * fraction)
\* rows, for every artifact and fraction.
C19_FinalSizeIsRounded ==
    (LoadedAll /\ data_file.kind = "csv")
        => FrameLen(df) = RoundHalfEven(TotalSampled * sample_frac, 100)

\* C19 amended: the final re-sample leaves the whole-number part of
\* total_sampled * fraction rows when that is at least 1, and the
\* concatenation as it is otherwise.
C19_FinalSizeIsTruncated ==
    (LoadedAll /\ data_file.kind = "csv")
        => LET total == TotalSampled
           IN  \E n \in 0..total :
                  /\ 100 * n <= total * sample_frac
                  /\ total * sample_frac < 100 * (n + 1)
                  /\ FrameLen(df) = IF n >= 1 THEN n ELSE total

\* C19 witness: 550 sampled rows at 5 percent, 27 rows left
C19_Witness ==
    /\ LoadedAll
    /\ data_file.runs = TwoChunks
    /\ sample_frac = 5
    /\ TotalSampled = 550
    /\ FrameLen(df) = 27

----------------------------------------------------------------------------
(* Further claims about the cleaning run *)

\* the integer text of the year of a written publish_time cell
YearTextOfDate(p) == IF p = "" THEN "" ELSE IntText(YearOfDate(p))

\* C21: the year cell of every written row is empty or the integer text of
\* the year of that row's publish_time, so two written rows with the same
\* publish_time have the same year cell whatever else is in their batches.
C21_YearDependsOnPublishTimeOnly ==
    start_output = Absent =>
        LET written == DataRows(output)
        IN  /\ \A k \in 1..Len(written) :
                  written[k].cells.year =
                      YearTextOfDate(written[k].cells.publish_time)
            /\ \A j, k \in 1..Len(written) :
                  written[j].cells.publish_time = written[k].cells.publish_time
                      => written[j].cells.year = written[k].cells.year

\* the data rows this run has appended to the output file
RowsAppended == Len(DataRows(output)) - Len(DataRows(start_output))

\* C22: at every point of a cleaning run total_rows_kept is the number of data
\* rows the run has appended to the output, it is at most
\* total_rows_processed, and a number returned by the call is that number of
\* rows.
C22_KeptCountsRowsWritten ==
    /\ total_rows_kept = RowsAppended
    /\ total_rows_kept <= total_rows_processed
    /\ result.kind = "int" => result.n = RowsAppended

\* C22 witness: a second run on the same destination read two records, kept
\* one, and returned 1 with two data rows in the file
C22_Witness ==
    /\ cpc = "returned"
    /\ runs = 2
    /\ Len(DataRows(start_output)) = 1
    /\ total_rows_processed = 2
    /\ result = RInt(1)
    /\ Len(DataRows(output)) = 2

\* the run returned from lines 94-98 and no record of its input has a title
CompletedWithNoSurvivor ==
    /\ cpc = "returned"
    /\ PresentRows(input.rows) = <<>>

\* C23: a run that completes without error and in which no record survives
\* leaves the output file as it was (it creates no file and writes no
\* header), returns None when there is no output file and 0 when there is
\* one, and the script reports it as failed.
C23_NoSurvivorReportedAsFailure ==
    CompletedWithNoSurvivor
        => /\ output = start_output
           /\ total_rows_kept = 0
           /\ result = IF start_output = Absent THEN RNone ELSE RInt(0)
           /\ ~ResultIsTruthy(result)
           /\ (via_main /\ report # "none")
                 => (report = "failed" /\ output = Absent)

\* C23 witness: the script ran on a header-only input and reported a failure
C23_Witness ==
    /\ CompletedWithNoSurvivor
    /\ via_main
    /\ report = "failed"
    /\ result = RNone

\* a call on a header-only input with an output file of an earlier run at the
\* destination returned 0
C23_WitnessPriorOutput ==
    /\ CompletedWithNoSurvivor
    /\ ~via_main
    /\ Len(DataRows(start_output)) > 0
    /\ result = RInt(0)

----------------------------------------------------------------------------
(* Further claims about the page *)

\* the rows of frame that have no year, with their counts
MissingYearRows(frame) == {r \in DOMAIN frame : r.year = Missing}

\* the year filter has been evaluated and the source filter has not
AfterYearFilter == ppc \in {"no_valid_years", "single_year", "year_filtered"}

\* C24, the year filter: a range filter leaves no row without a year; with
\* one distinct year, or none, every row without a year is kept
YearFilterOnMissingYears ==
    /\ ppc = "year_filtered" =>
          /\ Cardinality(ValidYears(df)) >= 2
          /\ MissingYearRows(filtered_df) = {}
    /\ ppc \in {"no_valid_years", "single_year"} =>
          /\ Cardinality(ValidYears(df)) <= 1
          /\ \A r \in MissingYearRows(df) : Copies(filtered_df, r) = df[r]

\* C24, the source filter: it keeps the rows of the year-filtered set whose
\* source is selected, and all of them when nothing is selected
SourceFilterOnTop ==
    (AfterYearFilter /\ ppc' = "source_filtered") =>
        /\ DOMAIN filtered_df' \subseteq DOMAIN filtered_df
        /\ \A r \in DOMAIN filtered_df :
              Copies(filtered_df', r) =
                  IF selected_sources' = {} \/ r.source_x \in selected_sources'
                  THEN filtered_df[r] ELSE 0

\* C24: rows with a missing year are removed whenever the year range filter
\* is applied, for every range, and are all kept when the sample has one
\* distinct year or none; the source filter is applied to the year-filtered
\* set, and an empty selection leaves that set unchanged.
C24_MissingYearsAndSourceOnTop ==
    /\ [](YearFilterOnMissingYears)
    /\ [][SourceFilterOnTop]_vars

\* C24 witness: a sample with two distinct years and a row without a year;
\* the range filter removed that row and an empty source selection kept the
\* rest
C24_Witness ==
    /\ ppc = "source_filtered"
    /\ {"year", "source_x"} \subseteq Columns(df)
    /\ Cardinality(ValidYears(df)) = 2
    /\ MissingYearRows(df) # {}
    /\ MissingYearRows(filtered_df) = {}
    /\ FrameLen(filtered_df) = 2
    /\ UniqueSources(df) # {}
    /\ selected_sources = {}

====
